---- MODULE Spec2Model ----
(***************************************************************************)
(* Model of src/main.py: a Streamlit page that collects story parameters,  *)
(* builds a prompt (generate_novel, lines 49-66), resolves the OpenAI key  *)
(* (_get_api_key / _get_client) and issues one chat-completion request     *)
(* through the new or the legacy client shape.                             *)
(*                                                                         *)
(* Text is a sequence of characters, each a one-character string.  A fixed *)
(* fragment of the prompt template is carried as one element holding the   *)
(* whole fragment: no fragment is blank, and the one a line starts with     *)
(* starts with a non-blank character, which is all that strip() and        *)
(* textwrap.dedent() look at.  Occurrences of a value inside a fragment    *)
(* are not counted.                                                        *)
(* Non-ASCII characters of the template are written in ASCII.              *)
(***************************************************************************)
EXTENDS Naturals, Sequences, FiniteSets, TLC

VARIABLES
    secrets,      \* st.secrets, as the value stored under OPENAI_API_KEY
    environ,      \* os.environ, as the value stored under OPENAI_API_KEY
    openai_pkg,   \* the installed openai package: "v1" (has OpenAI) or "v0"
    _SDK_STYLE,   \* module global set by the import at lines 6-13
    pc,           \* "idle", "called", "built", "waiting" (request in flight), "done"
    entry,        \* how generation was entered: "none", "handler", "direct"
    form,         \* the widget values the submit handler read
    api_key,      \* the last value _get_api_key returned
    args,         \* the arguments generate_novel was called with
    style_guide,  \* the local style_guide of generate_novel (the user prompt)
    inflight,     \* the chat-completion request that was sent
    calls,        \* chat-completion requests issued in this script run
    response,     \* what the backend answered
    gen_result,   \* how generate_novel ended (returned / raised / stopped)
    ui            \* what the page shows after the handler

vars == <<secrets, environ, openai_pkg, _SDK_STYLE, pc, entry, form, api_key, args,
          style_guide, inflight, calls, response, gen_result, ui>>

-----------------------------------------------------------------------------
(* Bounds of the model *)

MaxPremiseLen == 4

MaxContentLen == 3

-----------------------------------------------------------------------------
(* Characters and strings *)

SP == " "

NL == "\n"

TAB == "\t"

\* The characters str.strip() removes (those of the model's alphabet).
Whitespace == {SP, NL, TAB}

RECURSIVE StringsUpTo(_, _)
StringsUpTo(alphabet, n) ==
    IF n = 0 THEN {<<>>}
    ELSE LET shorter == StringsUpTo(alphabet, n - 1)
         IN  shorter \cup {Append(s, c) : s \in shorter, c \in alphabet}

StartsWith(s, prefix) ==
    /\ Len(prefix) <= Len(s)
    /\ SubSeq(s, 1, Len(prefix)) = prefix

\* The positions at which sub occurs in s as a contiguous substring.
Occurrences(sub, s) ==
    {i \in 1..(Len(s) + 1 - Len(sub)) : SubSeq(s, i, i + Len(sub) - 1) = sub}

Contains(s, sub) == Len(sub) <= Len(s) /\ Occurrences(sub, s) # {}

RECURSIVE lstrip(_)
lstrip(s) ==
    IF s # <<>> /\ Head(s) \in Whitespace THEN lstrip(Tail(s)) ELSE s

RECURSIVE rstrip(_)
rstrip(s) ==
    IF s # <<>> /\ s[Len(s)] \in Whitespace
    THEN rstrip(SubSeq(s, 1, Len(s) - 1))
    ELSE s

\* A plausible slip: only the leading whitespace is removed.
strip_leading_only(s) == lstrip(s)

\* str.strip()
strip(s) == rstrip(lstrip(s))

-----------------------------------------------------------------------------
(* textwrap.dedent, as called at line 49 *)

RECURSIVE split_lines(_)
split_lines(s) ==
    IF \A i \in 1..Len(s) : s[i] # NL THEN <<s>>
    ELSE LET k == CHOOSE i \in 1..Len(s) :
                      s[i] = NL /\ \A j \in 1..(i - 1) : s[j] # NL
         IN  <<SubSeq(s, 1, k - 1)>> \o split_lines(SubSeq(s, k + 1, Len(s)))

RECURSIVE join_lines(_)
join_lines(lines) ==
    IF Len(lines) = 0 THEN <<>>
    ELSE IF Len(lines) = 1 THEN lines[1]
    ELSE lines[1] \o <<NL>> \o join_lines(Tail(lines))

\* _whitespace_only_re, '^[ \t]+$': a line of blanks and tabs only.
whitespace_only(line) ==
    line # <<>> /\ \A i \in 1..Len(line) : line[i] \in {SP, TAB}

\* _leading_whitespace_re, '(^[ \t]*)(?:[^ \t\n])': the leading blanks of a
\* line that holds something else.
RECURSIVE leading_whitespace(_)
leading_whitespace(line) ==
    IF line # <<>> /\ Head(line) \in {SP, TAB}
    THEN <<Head(line)>> \o leading_whitespace(Tail(line))
    ELSE <<>>

RECURSIVE common_prefix(_, _)
common_prefix(a, b) ==
    IF a # <<>> /\ b # <<>> /\ Head(a) = Head(b)
    THEN <<Head(a)>> \o common_prefix(Tail(a), Tail(b))
    ELSE <<>>

\* One turn of dedent's loop over the indents.
next_margin(margin, indent) ==
    IF StartsWith(indent, margin) THEN margin
    ELSE IF StartsWith(margin, indent) THEN indent
    ELSE common_prefix(margin, indent)

RECURSIVE fold_margin(_, _)
fold_margin(margin, indents) ==
    IF indents = <<>> THEN margin
    ELSE fold_margin(next_margin(margin, Head(indents)), Tail(indents))

dedent(text) ==
    LET blanked == [i \in 1..Len(split_lines(text)) |->
                       IF whitespace_only(split_lines(text)[i]) THEN <<>>
                       ELSE split_lines(text)[i]]
        filled  == SelectSeq(blanked, LAMBDA l : l # <<>>)
        indents == [i \in 1..Len(filled) |-> leading_whitespace(filled[i])]
        margin  == IF indents = <<>> THEN <<>>
                   ELSE fold_margin(Head(indents), Tail(indents))
        cut(l)  == IF margin # <<>> /\ StartsWith(l, margin)
                   THEN SubSeq(l, Len(margin) + 1, Len(l))
                   ELSE l
    IN  join_lines([i \in 1..Len(blanked) |-> cut(blanked[i])])

-----------------------------------------------------------------------------
(* The prompt template of generate_novel, lines 49-66 *)

\* The eight blanks every template line starts with.
Indent == <<SP, SP, SP, SP, SP, SP, SP, SP>>

template_line(body) == Indent \o body \o <<NL>>

\* The f-string of lines 50-65, before dedent.
template(a) ==
    <<NL>>
    \o template_line(<<"Write a complete short story in ">> \o a.language \o <<".">>)
    \o template_line(<<"Requirements:">>)
    \o template_line(<<"- Genre: ">> \o a.genre)
    \o template_line(<<"- Main characters: ">> \o a.protagonist1
                       \o <<" and ">> \o a.protagonist2)
    \o template_line(<<"- Start with a strong hook in the first 2-3 sentences.">>)
    \o template_line(<<"- Maintain clear scene breaks and a satisfying arc (setup -> escalation -> climax -> resolution).">>)
    \o template_line(<<"- Show, don't tell. Keep dialogue natural.">>)
    \o template_line(<<"- Keep pacing tight and avoid filler.">>)
    \o template_line(<<"- Tone and diction should match the genre.">>)
    \o template_line(<<"- Target length: ~", ToString(a.target_words),
                       " words (+-15%).">>)
    \o template_line(<<"- End with a resonant final line (no meta commentary).">>)
    \o <<NL>>
    \o template_line(<<"Backstory / seed premise:">>)
    \o template_line(strip(a.premise))
    \o Indent

\* A plausible slip: the second character is left out of the template.
build_style_guide_one_name(a) ==
    strip(dedent(template([a EXCEPT !.protagonist2 = <<>>])))

\* style_guide = textwrap.dedent(f"""...""").strip()
build_style_guide(a) == strip(dedent(template(a)))

-----------------------------------------------------------------------------
(* Inputs *)

\* Two of the ten genres of the selectbox at lines 148-162.
GENRES == {<<"SF">>, <<"Fantasy">>}

\* The two output languages of line 130 ("Korean" stands for its Hangul name).
LANGUAGES == {<<"Korean">>, <<"English">>}

MODELS == {"gpt-4o-mini", "gpt-4o"}

\* The ends of the slider at line 132.
TARGET_WORDS == {400, 3000}

\* The upper end of the slider at line 133, in tenths.
TEMPERATURES == {15}

DEFAULT_TARGET_WORDS == 1200

\* 0.9, in tenths.
DEFAULT_TEMPERATURE == 9

DEFAULT_MODEL == "gpt-4o-mini"

\* What a text_input can hold: nothing, a blank, a name, a name to be trimmed.
FORM_NAMES == {<<>>, <<SP>>, <<"a">>, <<SP, "b">>}

\* What the text_area can hold.
FORM_PREMISES == {<<>>, <<SP>>, <<"p">>, <<"p", NL, SP, "q", SP>>}

NoArgs ==
    [protagonist1 |-> <<>>, protagonist2 |-> <<>>, genre |-> <<>>,
     premise |-> <<>>, language |-> <<>>, target_words |-> 0,
     temperature |-> 0, model |-> ""]

Forms ==
    [protagonist1 : FORM_NAMES, protagonist2 : FORM_NAMES, genre : GENRES,
     premise : FORM_PREMISES, language : LANGUAGES,
     target_words : TARGET_WORDS, temperature : TEMPERATURES, model : MODELS]

\* Calls of generate_novel that leave the last three parameters at their
\* defaults (lines 44-46).
DirectArgs ==
    [protagonist1 : FORM_NAMES, protagonist2 : FORM_NAMES, genre : GENRES,
     premise : FORM_PREMISES, language : LANGUAGES,
     target_words : {DEFAULT_TARGET_WORDS},
     temperature : {DEFAULT_TEMPERATURE}, model : {DEFAULT_MODEL}]

\* Story requests for the prompt builder: trimmed non-empty one-line names,
\* any premise over a letter, the blank and the line break.
PromptArgs ==
    [protagonist1 : {<<"a">>, <<"b">>, <<"a", SP, SP, "b">>},
     protagonist2 : {<<"a">>, <<"b">>},
     genre : GENRES, premise : StringsUpTo({"a", SP, NL}, MaxPremiseLen),
     language : LANGUAGES, target_words : {DEFAULT_TARGET_WORDS},
     temperature : {DEFAULT_TEMPERATURE}, model : {DEFAULT_MODEL}]

-----------------------------------------------------------------------------
(* Credential resolution, lines 19-35 *)

\* Python's None, for a key that is not there.
None == "<None>"

KEY_VALUES_STORE == {None, "", "sk-store"}

KEY_VALUES_ENV == {None, "", "sk-env"}

\* A plausible slip: the environment is asked first.
_get_api_key_env_first(sec, env) == IF env # None THEN env ELSE sec

_get_api_key(sec, env) == IF sec # None THEN sec ELSE env

\* Python's `not api_key`.
falsy(key) == key = None \/ key = ""

\* A _get_client that goes on without a key.
_get_client_never_stops(key) == FALSE

\* _get_client, lines 28-30: st.stop() when there is no key.
_get_client_stops(key) == falsy(key)

\* The import at lines 6-13.
sdk_style(pkg) == IF pkg = "v1" THEN "new" ELSE "legacy"

-----------------------------------------------------------------------------
(* The chat-completion call, lines 70-116 *)

SYSTEM_CONTENT ==
    <<"You are an award-winning novelist. You craft vivid scenes, believable dialogue, and tight plots.">>

NoRequest ==
    [model |-> "", temperature |-> 0, max_tokens |-> 0, messages |-> <<>>]

chat_request_new(model, temperature, prompt) ==
    [model |-> model, temperature |-> temperature, max_tokens |-> 4096,
     messages |-> << [role |-> "system", content |-> SYSTEM_CONTENT],
                     [role |-> "user", content |-> prompt] >>]

\* A legacy request that puts the user message first.
chat_request_legacy_swapped(model, temperature, prompt) ==
    [model |-> model, temperature |-> temperature, max_tokens |-> 4096,
     messages |-> << [role |-> "user", content |-> prompt],
                     [role |-> "system", content |-> SYSTEM_CONTENT] >>]

chat_request_legacy(model, temperature, prompt) ==
    [model |-> model, temperature |-> temperature, max_tokens |-> 4096,
     messages |-> << [role |-> "system", content |-> SYSTEM_CONTENT],
                     [role |-> "user", content |-> prompt] >>]

\* What the backend can answer: a raised error, a response without choices,
\* a response whose message content is null, or a response with content.
\* The text of a raised error is the library's; it is the same for both
\* shapes here.
API_ERRORS ==
    { [exc |-> "APIConnectionError", text |-> <<"Connection error.">>],
      [exc |-> "AuthenticationError", text |-> <<"Incorrect API key provided.">>],
      [exc |-> "RateLimitError", text |-> <<"You exceeded your current quota.">>] }

NoResponse == [kind |-> "none", exc |-> "", text |-> <<>>]

Responses ==
    {[kind |-> "raise", exc |-> e.exc, text |-> e.text] : e \in API_ERRORS}
    \cup {[kind |-> "empty_choices", exc |-> "", text |-> <<>>],
          [kind |-> "null_content", exc |-> "", text |-> <<>>]}
    \cup {[kind |-> "ok", exc |-> "", text |-> c] :
             c \in StringsUpTo({"x", SP}, MaxContentLen)}

\* How generate_novel can end.
NoResult == [kind |-> "none", exc |-> "", text |-> <<>>]

\* st.stop() ends the script run with a script-control exception, which is
\* no Exception: neither except clause (lines 91, 198) catches it.
Stopped == [kind |-> "stopped", exc |-> "StopException", text |-> <<>>]

Returned(text) == [kind |-> "returned", exc |-> "", text |-> text]

Raised(exc, text) == [kind |-> "raised", exc |-> exc, text |-> text]

\* The try block of the new path, lines 73-90: the create call, then
\* resp.choices[0].message.content.strip().
try_new(resp) ==
    CASE resp.kind = "raise" -> Raised(resp.exc, resp.text)
      [] resp.kind = "empty_choices" ->
            Raised("IndexError", <<"list index out of range">>)
      [] resp.kind = "null_content" ->
            Raised("AttributeError",
                   <<"'NoneType' object has no attribute 'strip'">>)
      [] OTHER -> Returned(strip(resp.text))

\* The try block of the legacy path, lines 97-114: the create call, then
\* resp["choices"][0]["message"]["content"].strip().
try_legacy(resp) ==
    CASE resp.kind = "raise" -> Raised(resp.exc, resp.text)
      [] resp.kind = "empty_choices" ->
            Raised("IndexError", <<"list index out of range">>)
      [] resp.kind = "null_content" ->
            Raised("AttributeError",
                   <<"'NoneType' object has no attribute 'strip'">>)
      [] OTHER -> Returned(strip(resp.text))

\* An except clause that drops the text of the failure.
generation_error_no_text(e) == Raised("RuntimeError", <<"OpenAI API error">>)

\* except Exception as e: raise RuntimeError(f"OpenAI API error: {e}")
generation_error(e) ==
    Raised("RuntimeError", <<"OpenAI API error: ">> \o e.text)

\* Lines 72-92.
complete_new(resp) ==
    LET r == try_new(resp)
    IN  IF r.kind = "raised" THEN generation_error(r) ELSE r

\* Lines 96-116.
complete_legacy(resp) ==
    LET r == try_legacy(resp)
    IN  IF r.kind = "raised" THEN generation_error(r) ELSE r

-----------------------------------------------------------------------------
(* The page *)

NoUi == [kind |-> "none", text |-> <<>>]

CONFIG_MESSAGE == <<"OPENAI_API_KEY is not set. Register the key as the sidebar says.">>

VALIDATION_MESSAGE == <<"Enter both character names and the story prompt.">>

\* Line 182: `not protagonist1 or not protagonist2 or not premise`.
validation_fails(w) ==
    w.protagonist1 = <<>> \/ w.protagonist2 = <<>> \/ w.premise = <<>>

\* The keyword arguments of lines 188-197.
handler_args(w) ==
    [w EXCEPT !.protagonist1 = strip(w.protagonist1),
              !.protagonist2 = strip(w.protagonist2)]

chat_request(style, a, prompt) ==
    IF style = "new"
    THEN chat_request_new(a.model, a.temperature, prompt)
    ELSE chat_request_legacy(a.model, a.temperature, prompt)

Init ==
    /\ secrets \in KEY_VALUES_STORE
    /\ environ \in KEY_VALUES_ENV
    /\ openai_pkg \in {"v1", "v0"}
    /\ _SDK_STYLE = sdk_style(openai_pkg)
    /\ pc = "idle"
    /\ entry = "none"
    /\ form = NoArgs
    /\ api_key = None
    /\ args = NoArgs
    /\ style_guide = <<>>
    /\ inflight = NoRequest
    /\ calls = 0
    /\ response = NoResponse
    /\ gen_result = NoResult
    /\ ui = NoUi

\* generate_novel from its first line to the create call (lines 49-73 and
\* 97): the prompt is built, _get_client resolves the key and stops the
\* script without one, and the request goes out.
EnterGenerateNovel(a) ==
    LET key    == _get_api_key(secrets, environ)
        prompt == build_style_guide(a)
    IN  /\ args' = a
        /\ style_guide' = prompt
        /\ api_key' = key
        /\ IF _get_client_stops(key)
           THEN /\ gen_result' = Stopped
                /\ pc' = "done"
                /\ UNCHANGED <<inflight, calls>>
           ELSE /\ inflight' = chat_request(_SDK_STYLE, a, prompt)
                /\ calls' = calls + 1
                /\ pc' = "waiting"
                /\ UNCHANGED gen_result
        /\ UNCHANGED <<ui, response>>

\* The submit handler, lines 175-188, for the widget values w.
SubmitHandler(w) ==
    /\ pc = "idle"
    /\ entry' = "handler"
    /\ form' = w
    /\ UNCHANGED <<secrets, environ, openai_pkg, _SDK_STYLE>>
    /\ IF falsy(_get_api_key(secrets, environ))
       THEN /\ ui' = [kind |-> "config_error", text |-> CONFIG_MESSAGE]
            /\ api_key' = _get_api_key(secrets, environ)
            /\ pc' = "done"
            /\ UNCHANGED <<args, style_guide, inflight, calls, response, gen_result>>
       ELSE IF validation_fails(w)
       THEN /\ ui' = [kind |-> "validation_warning", text |-> VALIDATION_MESSAGE]
            /\ api_key' = _get_api_key(secrets, environ)
            /\ pc' = "done"
            /\ UNCHANGED <<args, style_guide, inflight, calls, response, gen_result>>
       ELSE EnterGenerateNovel(handler_args(w))

\* generate_novel called by something other than the handler.
DirectCall(a) ==
    /\ pc = "idle"
    /\ entry' = "direct"
    /\ UNCHANGED <<secrets, environ, openai_pkg, _SDK_STYLE, form>>
    /\ EnterGenerateNovel(a)

\* What the handler shows once generate_novel has ended (lines 198-213).
handler_ui(result) ==
    IF result.kind = "raised"
    THEN [kind |-> "generation_error", text |-> result.text]
    ELSE [kind |-> "story", text |-> result.text]

\* A reply handler that sends the request again after a failure.
BackendReply_retry(resp) ==
    /\ pc = "waiting"
    /\ LET result == IF _SDK_STYLE = "new" THEN complete_new(resp)
                     ELSE complete_legacy(resp)
       IN  IF result.kind = "raised"
           THEN /\ calls' = calls + 1
                /\ UNCHANGED <<pc, args, style_guide, inflight, gen_result, ui>>
           ELSE /\ gen_result' = result
                /\ ui' = IF entry = "handler" THEN handler_ui(result) ELSE ui
                /\ pc' = "done"
                /\ args' = NoArgs
                /\ style_guide' = <<>>
                /\ inflight' = NoRequest
                /\ UNCHANGED calls
    /\ response' = resp
    /\ UNCHANGED <<secrets, environ, openai_pkg, _SDK_STYLE, entry, form,
                   api_key>>

\* The backend answers the request in flight: the rest of the try block and
\* its except clause (lines 90-92, 114-116), then the rest of the handler.
BackendReply(resp) ==
    /\ pc = "waiting"
    /\ LET result == IF _SDK_STYLE = "new" THEN complete_new(resp)
                     ELSE complete_legacy(resp)
       IN  /\ gen_result' = result
           /\ ui' = IF entry = "handler" THEN handler_ui(result) ELSE ui
    /\ response' = resp
    /\ pc' = "done"
    /\ args' = NoArgs
    /\ style_guide' = <<>>
    /\ inflight' = NoRequest
    /\ UNCHANGED <<secrets, environ, openai_pkg, _SDK_STYLE, entry, form,
                   api_key, calls>>

\* Streamlit runs the script again from its first line.
Rerun ==
    /\ pc = "done"
    /\ _SDK_STYLE' = sdk_style(openai_pkg)
    /\ pc' = "idle"
    /\ entry' = "none"
    /\ form' = NoArgs
    /\ api_key' = None
    /\ args' = NoArgs
    /\ style_guide' = <<>>
    /\ inflight' = NoRequest
    /\ calls' = 0
    /\ response' = NoResponse
    /\ gen_result' = NoResult
    /\ ui' = NoUi
    /\ UNCHANGED <<secrets, environ, openai_pkg>>

Next ==
    \/ \E w \in Forms : SubmitHandler(w)
    \/ \E a \in DirectArgs : DirectCall(a)
    \/ \E resp \in Responses : BackendReply(resp)
    \/ Rerun

Spec == Init /\ [][Next]_vars

-----------------------------------------------------------------------------
(* The prompt builder alone, over a wider set of premises *)

PromptInit ==
    /\ secrets = "sk-store"
    /\ environ = None
    /\ openai_pkg = "v1"
    /\ _SDK_STYLE = sdk_style(openai_pkg)
    /\ pc = "called"
    /\ entry = "direct"
    /\ form = NoArgs
    /\ api_key = None
    /\ args \in PromptArgs
    /\ style_guide = <<>>
    /\ inflight = NoRequest
    /\ calls = 0
    /\ response = NoResponse
    /\ gen_result = NoResult
    /\ ui = NoUi

\* Lines 49-66 of generate_novel.
BuildStyleGuide ==
    /\ pc = "called"
    /\ style_guide' = build_style_guide(args)
    /\ pc' = "built"
    /\ UNCHANGED <<secrets, environ, openai_pkg, _SDK_STYLE, entry, form,
                   api_key, args, inflight, calls, response, gen_result, ui>>

PromptNext == BuildStyleGuide

PromptSpec == PromptInit /\ [][PromptNext]_vars

-----------------------------------------------------------------------------
(* Properties *)

NoKeySupplied == falsy(secrets) /\ falsy(environ)

IsFailure(resp) == resp.kind \in {"raise", "empty_choices", "null_content"}

\* str(e) of the failure a response stands for.
FailureText(resp) ==
    IF resp.kind = "raise" THEN resp.text
    ELSE IF resp.kind = "empty_choices" THEN <<"list index out of range">>
    ELSE <<"'NoneType' object has no attribute 'strip'">>

\* C2: whenever the chat-completion call failed (raised, or answered without
\* choices or without content), under either client shape, generate_novel
\* ended by raising RuntimeError with a message that contains the text of
\* the failure.
C2_FailureBecomesRuntimeError ==
    (pc = "done" /\ IsFailure(response)) =>
        /\ gen_result.kind = "raised"
        /\ gen_result.exc = "RuntimeError"
        /\ Contains(gen_result.text, FailureText(response))

C2_Witness ==
    /\ pc = "done"
    /\ _SDK_STYLE = "legacy"
    /\ response.kind = "empty_choices"
    /\ gen_result.exc = "RuntimeError"

AllWhitespace(s) == \A i \in 1..Len(s) : s[i] \in Whitespace

\* r is c without its leading and trailing whitespace, and nothing else.
IsTrimOf(r, c) ==
    /\ r # <<>> => r[1] \notin Whitespace /\ r[Len(r)] \notin Whitespace
    /\ \E i \in 0..Len(c) :
          /\ i + Len(r) <= Len(c)
          /\ AllWhitespace(SubSeq(c, 1, i))
          /\ SubSeq(c, i + 1, i + Len(r)) = r
          /\ AllWhitespace(SubSeq(c, i + Len(r) + 1, Len(c)))

\* C3: whenever the call succeeded with content c, generate_novel returned
\* c with its leading and trailing whitespace removed and nothing else
\* changed, under either client shape.
C3_ReturnsTrimmedContent ==
    (pc = "done" /\ response.kind = "ok") =>
        /\ gen_result.kind = "returned"
        /\ IsTrimOf(gen_result.text, response.text)

C3_Witness ==
    /\ pc = "done"
    /\ response.kind = "ok"
    /\ response.text = <<SP, "x", SP>>
    /\ gen_result.text = <<"x">>

\* C4: the built prompt contains the trimmed premise as a contiguous,
\* character-for-character substring, for every premise.
C4_PremiseVerbatim ==
    pc = "built" => Contains(style_guide, strip(args.premise))

Once(sub, s) == Cardinality(Occurrences(sub, s)) = 1

FirstLine(premise) == split_lines(strip(premise))[1]

C6_StoreTakesPrecedence ==
    entry # "none" =>
        /\ (secrets # None => api_key = secrets)
        /\ (secrets = None /\ environ # None => api_key = environ)
        /\ (secrets = None /\ environ = None => api_key = None)
        /\ (secrets # None /\ environ # secrets => api_key # environ)

C6_Witness ==
    /\ entry # "none"
    /\ secrets = "sk-store"
    /\ environ = "sk-env"
    /\ api_key = "sk-store"

\* C7: in every submission of the handler that has a request in flight, the
\* two names and the premise are non-empty after trimming.
C7_SentFieldsNonEmptyTrimmed ==
    (entry = "handler" /\ pc = "waiting") =>
        /\ strip(form.protagonist1) # <<>>
        /\ strip(form.protagonist2) # <<>>
        /\ strip(form.premise) # <<>>

\* C8: a script run issues at most one chat-completion request: none when
\* it halted on the missing key or on validation, exactly one when a story
\* was returned, and exactly one, with none in flight, once the request
\* has failed.
C8_AtMostOneRequest ==
    /\ calls <= 1
    /\ (ui.kind \in {"config_error", "validation_warning"} => calls = 0)
    /\ (gen_result.kind = "stopped" => calls = 0)
    /\ (gen_result.kind = "returned" => calls = 1 /\ pc = "done")
    /\ (gen_result.kind = "raised" =>
            calls = 1 /\ pc = "done" /\ inflight = NoRequest)
    /\ (pc = "waiting" => calls = 1)

C8_Witness ==
    /\ pc = "done"
    /\ gen_result.kind = "raised"
    /\ response.kind = "raise"
    /\ calls = 1

\* The request in flight is the one either shape sends for the arguments:
\* the model, the temperature, max_tokens 4096 whatever target_words is,
\* and the system message followed by the user message holding the prompt;
\* and the result is the one either shape produces for the response.
C9_ShapesAgree ==
    /\ pc = "waiting" =>
          /\ inflight = chat_request_new(args.model, args.temperature, style_guide)
          /\ inflight = chat_request_legacy(args.model, args.temperature, style_guide)
          /\ inflight.model = args.model
          /\ inflight.temperature = args.temperature
          /\ inflight.max_tokens = 4096
          /\ Len(inflight.messages) = 2
          /\ inflight.messages[1].role = "system"
          /\ inflight.messages[2] = [role |-> "user", content |-> style_guide]
    /\ (pc = "done" /\ response # NoResponse) =>
          /\ gen_result = complete_new(response)
          /\ gen_result = complete_legacy(response)

\* C9: the client shape never changes, over any sequence of script runs,
\* and the two shapes send the same request and produce the same result.
C9_ShapeFixedAndEquivalent ==
    /\ []C9_ShapesAgree
    /\ [][_SDK_STYLE' = _SDK_STYLE]_vars

C9_Witness ==
    /\ pc = "waiting"
    /\ _SDK_STYLE = "legacy"
    /\ args.target_words = 3000
    /\ inflight.max_tokens = 4096

\* C10: when the environment holds a non-empty key and the store holds no
\* non-empty one, a submission with valid inputs is not halted as a
\* configuration error.
C10_EnvFallback ==
    (/\ ~falsy(environ)
     /\ falsy(secrets)
     /\ entry = "handler"
     /\ strip(form.protagonist1) # <<>>
     /\ strip(form.protagonist2) # <<>>
     /\ strip(form.premise) # <<>>) =>
        ui.kind # "config_error"

====
